---- MODULE Spec2Model ----
(***************************************************************************)
(* Model of the weather pipeline of generate_data.py: the grid indexer and  *)
(* anchor sampler (generate_unique_grids), the checkpointed fetcher        *)
(* (fetch_anchors) and the nearest-neighbour synthesizer                   *)
(* (interpolate_and_save); and of the batch persister of upload_dynamo.py. *)
(*                                                                         *)
(* Units: latitudes and longitudes are in hundredths of a degree, metric   *)
(* values (temperature, wind speed) in hundredths of their unit, so that   *)
(* round(x, 1) is a real conversion (to the nearest multiple of 10).       *)
(***************************************************************************)
EXTENDS Integers, Sequences, FiniteSets, TLC

\* ---------------------------------------------------------------- bounds
\* Number of candidate cells the small inputs are drawn from.
MaxCells == 3
\* Number of anchors of the long fetch run (enough to pass a checkpoint).
LongCells == 53
\* Length of the small point lists generate_unique_grids is run on.
MaxPoints == 3
\* Length of the long point lists (one point per cell, two strides).
LongPoints == 41
\* Length of the point lists the whole pipeline is run on.
MainPoints == 2
\* Length of the small record lists upload is run on.
MaxRecords == 3
\* Length of the long record lists (one full batch and two more records).
LongRecords == 27

\* ------------------------------------------------------ program constants
\* GRID_DEG = 0.18 degrees, in hundredths of a degree.
GRID_DEG == 18
\* "Save checkpoint every 50 requests": if i % 50 == 0.
K == 50
\* for h in range(24)
HourlyCount == 24
\* for d in range(1, 7): d = 1 .. DailyLast
DailyLast == 6
\* "forecast_days": 7
ForecastDays == 7
\* RECORDS_PER_GRID = 30 (24 hourly + 6 daily)
RECORDS_PER_GRID == 30
\* ANCHOR_PERCENTAGE = 0.05, in percent.
ANCHOR_PERCENTAGE == 5
\* flush_amount of table.batch_writer(): the items of one batch write.
BatchSize == 25
\* GRID_DEG = 0.18 of query.py, in hundredths of a degree.
QUERY_GRID_DEG == 18

\* ------------------------------------------------------------ data model
\* grid_id = f"GRID#{gx}#{gy}"
GridID(gx, gy) == <<"GRID", gx, gy>>

\* city_data of generate_unique_grids, with the IsAnchor flag the two
\* sampling passes leave on it. Coordinates are the cell centre.
CityData(gx, gy, isAnchor) ==
    [ GridID       |-> GridID(gx, gy),
      City         |-> <<"city", gx, gy>>,
      LocationName |-> <<"city", gx, gy>>,
      Country      |-> "country",
      Lat          |-> (gy * GRID_DEG) + (GRID_DEG \div 2),
      Lon          |-> (gx * GRID_DEG) + (GRID_DEG \div 2),
      Population   |-> 1000 * (gx + 1),
      IsAnchor     |-> isAnchor ]

\* One element of all_city_lookups: a raw point of the cell (gx, gy).
CityLookup(gx, gy, n) ==
    [ GridID       |-> GridID(gx, gy),
      Timestamp    |-> "0000-00-00_METADATA",
      Type         |-> "CityLookup",
      LocationName |-> <<"city", gx, gy, n>>,
      Country      |-> "country",
      Lat          |-> (gy * GRID_DEG) + n,
      Lon          |-> (gx * GRID_DEG) + n,
      Population   |-> 1000 * (gx + 1) ]

\* The k-th candidate cell: a row of three cells, then the next row.
CellAt(k) == <<(k - 1) % 3, (k - 1) \div 3>>

\* Mutant: the sort puts the most populated cells first.
BeforeByPopulation(a, b) ==
    \/ a.Population > b.Population
    \/ a.Population = b.Population /\ a.Lat > b.Lat
    \/ a.Population = b.Population /\ a.Lat = b.Lat /\ a.Lon < b.Lon

\* unique_grids.sort(key=lambda x: (-x['Lat'], x['Lon']))
Before(a, b) == (a.Lat > b.Lat) \/ (a.Lat = b.Lat /\ a.Lon < b.Lon)

RECURSIVE SortGrids(_)
SortGrids(S) ==
    IF S = {} THEN <<>>
    ELSE LET first == CHOOSE a \in S : \A b \in S \ {a} : Before(a, b)
         IN  <<first>> \o SortGrids(S \ {first})

\* The empty mapping (an empty dict).
EmptyMap == [g \in {} |-> 0]

\* The forecast source's answer body for a cell: the values from which the
\* hourly and daily series of the payload are laid out (see Hourly, Daily).
Forecast(gid) ==
    IF gid[2] % 2 = 0 THEN [t |-> 1234, w |-> 40, id |-> gid]
                      ELSE [t |-> 0 - 250, w |-> 120, id |-> gid]

\* r.status_code of the answer, or a raised exception (timeout, ...).
Outcomes == {"200", "429", "500", "exception"}

\* The checkpoint artifact: absent, unreadable, or a dumped mapping.
NoFile == [exists |-> FALSE, valid |-> FALSE, data |-> EmptyMap]
TornFile == [exists |-> TRUE, valid |-> FALSE, data |-> EmptyMap]
\* Mutant: the dump leaves a file json.load cannot parse.
DumpFileUnparsable(cache) == [exists |-> TRUE, valid |-> FALSE, data |-> cache]

\* json.dump(real_data_cache, f) into a file opened with 'w'.
DumpFile(cache) == [exists |-> TRUE, valid |-> TRUE, data |-> cache]

VARIABLES
    grids,            \* all_grids: the cell representatives, sorted
    lookups,          \* all_city_lookups
    answer,           \* how the forecast source answers each anchor cell
    file,             \* CHECKPOINT_FILE
    file0,            \* CHECKPOINT_FILE as it was before the first run
    resumed,          \* an earlier execution of fetch_anchors was terminated
    pc,               \* position of the pipeline
    real_data_cache,  \* real_data_cache of fetch_anchors
    grids_to_fetch,   \* grids_to_fetch of fetch_anchors
    i,                \* loop index of fetch_anchors (0-based)
    requested,        \* GridID -> number of requests issued in this run
    saw429,           \* a 429 response was received in this run
    slept,            \* time.sleep(0.1) has run since the last request
    loaded,           \* keys of the cache loaded from the checkpoint
    failed,           \* GridIDs whose request failed in this run
    final_records,    \* final_records of interpolate_and_save
    written,          \* OUTPUT_FILE has been written
    nearest,          \* GridID -> nearest_anchor_id of the tree query
    dist2,            \* GridID -> squared distance of the tree query
    noise             \* GridID -> noise_factor

VARIABLES
    source_exists,    \* INPUT_FILE is present
    points,           \* the rows of INPUT_FILE, in file order
    city_idx,         \* number of rows the indexing loop has processed
    grid_map,         \* grid_map: the representatives, in insertion order
    start_index,      \* start_index drawn by Pass 1
    spatial_ids,      \* GridIDs Pass 1 marked
    spatial_count,    \* spatial_count
    pop_ids,          \* GridIDs Pass 2 marked
    pop_count         \* pop_count

genVars == <<source_exists, points, city_idx, grid_map, start_index,
             spatial_ids, spatial_count, pop_ids, pop_count>>

VARIABLES
    data,             \* the records of the artifact upload reads
    store,            \* how the store answers batch writes during this run
    rec_idx,          \* number of records the upload loop has consumed
    seen_keys,        \* seen_keys
    skipped_dupes,    \* skipped_dupes
    handed,           \* the items passed to batch.put_item, in order
    items_buffer,     \* the batch writer's buffer of items not yet sent
    table_items,      \* the items the store has accepted
    surfaced,         \* number of "skipping..." messages printed
    batch_writes,     \* number of batch_write_item calls made, modulo 2
    put_raised        \* the keys whose batch.put_item raised

upVars == <<data, store, rec_idx, seen_keys, skipped_dupes, handed,
            items_buffer, table_items, surfaced, batch_writes, put_raised>>

vars == <<grids, lookups, answer, file, file0, resumed, pc, real_data_cache,
          grids_to_fetch, i, requested, saw429, slept, loaded, failed,
          final_records, written, nearest, dist2, noise, genVars, upVars>>

fetchVars == <<real_data_cache, grids_to_fetch, i, requested, saw429,
               slept, loaded, failed>>
outVars == <<final_records, written, nearest, dist2, noise>>
inputVars == <<grids, lookups, answer, file0, genVars, upVars>>

GridIDs == {grids[n].GridID : n \in 1..Len(grids)}
\* anchor_grids = [g for g in grids if g['IsAnchor']]
AnchorGrids == SelectSeq(grids, LAMBDA g : g.IsAnchor)
AnchorIDs == {grids[n].GridID : n \in {m \in 1..Len(grids) : grids[m].IsAnchor}}

\* ---------------------------------------------------------- fetch_anchors
NoRequests == [g \in GridIDs |-> 0]

\* if os.path.exists(CHECKPOINT_FILE): try json.load, except: start fresh
LoadedCache(f) == IF f.exists /\ f.valid THEN f.data ELSE EmptyMap

\* Mutant: every anchor is fetched, cached or not.
GridsToFetchAll(anchors, cache) == anchors

\* grids_to_fetch = [g for g in anchor_grids if g['GridID'] not in cache]
GridsToFetch(anchors, cache) ==
    SelectSeq(anchors, LAMBDA g : g.GridID \notin DOMAIN cache)

\* Mutant: the cache is replaced by the new entry instead of updated.
CachePutOnly(cache, gid, payload) == [g \in {gid} |-> payload]

\* real_data_cache[grid['GridID']] = r.json()
CachePut(cache, gid, payload) ==
    [g \in DOMAIN cache \cup {gid} |-> IF g = gid THEN payload ELSE cache[g]]

\* Mutant: the body of an error answer is stored like a forecast.
CacheAfterAnyBody(cache, gid, out) ==
    IF out \in {"200", "500"} THEN CachePut(cache, gid, Forecast(gid)) ELSE cache

\* Lines 155-161: only a 200 answer is stored; 429 and any other status are
\* reported, and an exception raised by the request stores nothing.
CacheAfter(cache, gid, out) ==
    IF out = "200" THEN CachePut(cache, gid, Forecast(gid)) ELSE cache

\* Lines 122-145: resume logic, then the list of anchors still to fetch.
LoadCheckpoint ==
    /\ pc = "load"
    /\ real_data_cache' = LoadedCache(file)
    /\ loaded' = DOMAIN real_data_cache'
    /\ grids_to_fetch' = GridsToFetch(AnchorGrids, real_data_cache')
    /\ i' = 0
    /\ requested' = NoRequests
    /\ saw429' = FALSE
    /\ slept' = TRUE
    /\ failed' = {}
    /\ pc' = "request"
    /\ UNCHANGED <<inputVars, file, resumed, outVars>>

\* Lines 148-161 and 170-171: one request and the handling of its outcome.
\* A raised exception leaves the try block: the checkpoint step and the
\* sleep of this iteration are skipped.
FetchRequest ==
    /\ pc = "request"
    /\ i < Len(grids_to_fetch)
    /\ LET gid == grids_to_fetch[i + 1].GridID
           out == answer[gid]
       IN  /\ requested' = [requested EXCEPT ![gid] = @ + 1]
           /\ real_data_cache' = CacheAfter(real_data_cache, gid, out)
           /\ saw429' = (saw429 \/ out = "429")
           /\ slept' = FALSE
           /\ failed' = IF out \in {"500", "exception"}
                        THEN failed \cup {gid} ELSE failed
           /\ IF out = "exception"
              THEN pc' = "request" /\ i' = i + 1
              ELSE pc' = "save" /\ i' = i
    /\ UNCHANGED <<inputVars, file, resumed, grids_to_fetch, loaded, outVars>>

\* Lines 163-168: if i % 50 == 0: dump the cache; then time.sleep(0.1).
SaveCheckpoint ==
    /\ pc = "save"
    /\ file' = IF i % K = 0 THEN DumpFile(real_data_cache) ELSE file
    /\ slept' = TRUE
    /\ i' = i + 1
    /\ pc' = "request"
    /\ UNCHANGED <<inputVars, resumed, real_data_cache, grids_to_fetch,
                   requested, saw429, loaded, failed, outVars>>

\* Lines 173-177: final save of the checkpoint, return real_data_cache.
FinalSave ==
    /\ pc = "request"
    /\ i = Len(grids_to_fetch)
    /\ file' = DumpFile(real_data_cache)
    /\ pc' = "done"
    /\ UNCHANGED <<inputVars, resumed, fetchVars, outVars>>

\* The file is being written where the process stands.
AtWrite == \/ pc = "save" /\ i % K = 0
           \/ pc = "request" /\ i = Len(grids_to_fetch)

\* The process is terminated during fetch_anchors and the pipeline is run
\* again: everything in memory is lost, the checkpoint file is what remains.
\* A termination inside open(..., 'w') / json.dump leaves a truncated file.
Terminate ==
    /\ pc \in {"load", "request", "save"}
    /\ \E torn \in BOOLEAN :
         /\ torn => AtWrite
         /\ file' = IF torn THEN TornFile ELSE file
    /\ resumed' = TRUE
    /\ pc' = "load"
    /\ real_data_cache' = EmptyMap
    /\ grids_to_fetch' = <<>>
    /\ i' = 0
    /\ requested' = NoRequests
    /\ saw429' = FALSE
    /\ slept' = TRUE
    /\ loaded' = {}
    /\ failed' = {}
    /\ UNCHANGED <<inputVars, outVars>>

\* --------------------------------------------------- interpolate_and_save
\* The payload r.json() of a forecast body: 24 * forecast_days hourly samples
\* and forecast_days daily samples, each series with its own time array.
\* Python index h is position h + 1 here.
HourlyOf(p) ==
    LET H == 1..(24 * ForecastDays) IN
    [ time                      |-> [h \in H |-> <<"day", (h - 1) \div 24, "hour", (h - 1) % 24>>],
      temperature_2m            |-> [h \in H |-> p.t + 10 * ((h - 1) % 24)],
      relative_humidity_2m      |-> [h \in H |-> 50 + ((h - 1) % 24) + (p.w \div 40)],
      precipitation_probability |-> [h \in H |-> ((5 * (h - 1)) + (p.w \div 40)) % 100],
      precipitation             |-> [h \in H |-> ((h - 1) % 4) + (p.w \div 40)],
      wind_speed_10m            |-> [h \in H |-> p.w + 10 * ((h - 1) % 3)] ]

DailyOf(p) ==
    LET D == 1..ForecastDays IN
    [ time                          |-> [d \in D |-> <<"day", d - 1>>],
      temperature_2m_max            |-> [d \in D |-> p.t + 100 + 10 * d],
      precipitation_probability_max |-> [d \in D |-> (10 * d) + (p.w \div 40)],
      precipitation_sum             |-> [d \in D |-> d + (p.w \div 40)],
      wind_speed_10m_max            |-> [d \in D |-> p.w + 50 + 10 * d] ]

\* round(x, 1) on values in hundredths: the nearest multiple of 10, a tie
\* going to the even tenth.
Round1(x) ==
    LET q == x \div 10
        r == x % 10
    IN  IF r < 5 THEN 10 * q
        ELSE IF r > 5 THEN 10 * (q + 1)
        ELSE IF q % 2 = 0 THEN 10 * q ELSE 10 * (q + 1)

Max(a, b) == IF a >= b THEN a ELSE b

\* Values np.random.normal(0, 0.5) + dist * 2.0 * np.random.uniform(-1, 1)
\* can take, in hundredths.
NoiseVals == {0 - 130, 0 - 4, 7}

\* valid_anchors = [g for g in all_grids if g['GridID'] in real_data_cache]
ValidAnchors(all_grids, cache) ==
    SelectSeq(all_grids, LAMBDA g : g.GridID \in DOMAIN cache)

\* Squared Euclidean distance in (lat, lon) space.
Dist2(a, b) ==
    (a.Lat - b.Lat) * (a.Lat - b.Lat) + (a.Lon - b.Lon) * (a.Lon - b.Lon)

\* tree.query(point, k=1): the indices of the anchors at minimal distance
\* (which of several equidistant anchors is returned is the tree's choice).
NearestIdx(grid, valid) ==
    {k \in 1..Len(valid) :
        \A m \in 1..Len(valid) : Dist2(grid, valid[k]) <= Dist2(grid, valid[m])}

\* Mutant: every cell is treated as a satellite.
IsSatelliteAlways(grid, nearest_anchor_id) == TRUE

\* is_satellite = (grid['GridID'] != nearest_anchor_id)
IsSatellite(grid, nearest_anchor_id) == grid.GridID # nearest_anchor_id

\* noise_factor = 0; if is_satellite: noise_factor = <draw>
NoiseFactor(is_satellite, draw) == IF is_satellite THEN draw ELSE 0

\* round(value + noise_factor, 1)
Temperature(value, noise_factor) == Round1(value + noise_factor)

\* Mutant: the floor at 0 is missing.
WindSpeedNoFloor(value, noise_factor) == Round1(value + noise_factor)

\* round(max(0, value + noise_factor), 1)
WindSpeed(value, noise_factor) == Round1(Max(0, value + noise_factor))

\* Mutant: the noise is added to the copied fields too.
UnmodifiedNoisy(value, noise_factor) == value + noise_factor

\* Lines 224-226 and 243-244: humidity, precipitation probability and
\* precipitation are emitted as they are in source_data, without the noise.
Unmodified(value, noise_factor) == value

\* "IsAnchor": grid['IsAnchor']
EmittedIsAnchor(grid, nearest_anchor_id) == grid.IsAnchor

\* Lines 215-229, for Python index h.
HourlyRecord(grid, nearest_anchor_id, h_data, h, noise_factor) ==
    [ GridID       |-> grid.GridID,
      Timestamp    |-> h_data.time[h + 1],
      Type         |-> "Hourly",
      LocationName |-> grid.LocationName,
      Country      |-> grid.Country,
      Lat          |-> grid.Lat,
      Lon          |-> grid.Lon,
      IsAnchor     |-> EmittedIsAnchor(grid, nearest_anchor_id),
      Temperature  |-> Temperature(h_data.temperature_2m[h + 1], noise_factor),
      Humidity     |-> Unmodified(h_data.relative_humidity_2m[h + 1], noise_factor),
      ChanceOfRain |-> Unmodified(h_data.precipitation_probability[h + 1], noise_factor),
      Precipitation |-> Unmodified(h_data.precipitation[h + 1], noise_factor),
      WindSpeed    |-> WindSpeed(h_data.wind_speed_10m[h + 1], noise_factor) ]

\* Lines 234-247, for Python index d; the timestamp is f"{date}T12:00:00".
DailyRecord(grid, nearest_anchor_id, d_data, d, noise_factor) ==
    [ GridID       |-> grid.GridID,
      Timestamp    |-> d_data.time[d + 1] \o <<"T12:00:00">>,
      Type         |-> "Daily",
      LocationName |-> grid.LocationName,
      Country      |-> grid.Country,
      Lat          |-> grid.Lat,
      Lon          |-> grid.Lon,
      IsAnchor     |-> EmittedIsAnchor(grid, nearest_anchor_id),
      Temperature  |-> Temperature(d_data.temperature_2m_max[d + 1], noise_factor),
      ChanceOfRain |-> Unmodified(d_data.precipitation_probability_max[d + 1], noise_factor),
      Precipitation |-> Unmodified(d_data.precipitation_sum[d + 1], noise_factor),
      WindSpeed    |-> WindSpeed(d_data.wind_speed_10m_max[d + 1], noise_factor) ]

\* for h in range(24)
HourlyRange == 0..(HourlyCount - 1)
\* Mutant: the daily loop starts at today, range(7).
DailyRangeFromZero == 0..DailyLast

\* for d in range(1, 7)
DailyRange == 1..DailyLast

\* The records one iteration of the loop over all_grids appends.
GridRecords(grid, nearest_anchor_id, source_data, noise_factor) ==
    LET h_data == HourlyOf(source_data)
        d_data == DailyOf(source_data)
        h0 == CHOOSE h \in HourlyRange : \A x \in HourlyRange : h <= x
        d0 == CHOOSE d \in DailyRange : \A x \in DailyRange : d <= x
        hs == [n \in 1..Cardinality(HourlyRange) |->
                 HourlyRecord(grid, nearest_anchor_id, h_data, h0 + n - 1, noise_factor)]
        ds == [n \in 1..Cardinality(DailyRange) |->
                 DailyRecord(grid, nearest_anchor_id, d_data, d0 + n - 1, noise_factor)]
    IN  hs \o ds

RECURSIVE Concat(_, _)
Concat(f, n) == IF n = 0 THEN <<>> ELSE Concat(f, n - 1) \o f[n]

\* Mutant: without anchors the lookup records alone are written out.
AbortedDumpLookups(all_lookups) == <<all_lookups>>

\* Lines 185-187: without valid anchors, print and return before
\* OUTPUT_FILE is opened: <<>> for no dump, <<records>> for a dump.
AbortedDump(all_lookups) == <<>>

\* Lines 180-252. q[n] is the index the tree query returns for the n-th
\* grid, draw[n] the random value drawn for it if it is a satellite.
Interpolate ==
    /\ pc = "done"
    /\ LET valid == ValidAnchors(grids, real_data_cache)
           N == 1..Len(grids)
       IN  IF valid = <<>>
           THEN /\ pc' = "finished"
                /\ final_records' = IF AbortedDump(lookups) = <<>> THEN final_records
                                    ELSE AbortedDump(lookups)[1]
                /\ written' = (written \/ AbortedDump(lookups) # <<>>)
                /\ UNCHANGED <<nearest, dist2, noise>>
           ELSE \E q \in {f \in [N -> 1..Len(valid)] :
                            \A n \in N : f[n] \in NearestIdx(grids[n], valid)} :
                LET nid(n) == valid[q[n]].GridID
                    sat == {n \in N : IsSatellite(grids[n], nid(n))}
                IN  \E draw \in [sat -> NoiseVals] :
                    LET nf(n) == NoiseFactor(n \in sat, IF n \in sat THEN draw[n] ELSE 0)
                        recs == [n \in N |->
                                   GridRecords(grids[n], nid(n),
                                               real_data_cache[nid(n)], nf(n))]
                        idx(g) == CHOOSE n \in N : grids[n].GridID = g
                    IN  /\ final_records' = lookups \o Concat(recs, Len(grids))
                        /\ nearest' = [g \in GridIDs |-> nid(idx(g))]
                        /\ dist2' = [g \in GridIDs |->
                                       Dist2(grids[idx(g)], valid[q[idx(g)]])]
                        /\ noise' = [g \in GridIDs |-> nf(idx(g))]
                        /\ written' = TRUE
                        /\ pc' = "finished"
    /\ UNCHANGED <<inputVars, file, resumed, fetchVars>>

\* -------------------------------------------------- generate_unique_grids
\* A row of the point source; population is <<>> when the cell is empty (NaN).
Row(name, lat, lng, population) ==
    [city_ascii |-> name, country |-> "country", lat |-> lat, lng |-> lng,
     population |-> population]

\* pop if not pd.isna(pop) else 0
PopOf(row) == IF row.population = <<>> THEN 0 ELSE row.population[1]

\* gx = math.floor(lon / GRID_DEG), gy = math.floor(lat / GRID_DEG)
GridOf(lat, lon) == GridID(lon \div GRID_DEG, lat \div GRID_DEG)

\* Mutant: the lookup record carries the cell-centre coordinates.
LookupRecordAtCentre(row) ==
    [ GridID       |-> GridOf(row.lat, row.lng),
      Timestamp    |-> "0000-00-00_METADATA",
      Type         |-> "CityLookup",
      LocationName |-> row.city_ascii,
      Country      |-> row.country,
      Lat          |-> ((row.lat \div GRID_DEG) * GRID_DEG) + (GRID_DEG \div 2),
      Lon          |-> ((row.lng \div GRID_DEG) * GRID_DEG) + (GRID_DEG \div 2),
      Population   |-> IF row.population = <<>> THEN 0 ELSE row.population[1] ]

\* Lines 56-65: the lookup record of a row, with its raw coordinates.
LookupRecord(row) ==
    [ GridID       |-> GridOf(row.lat, row.lng),
      Timestamp    |-> "0000-00-00_METADATA",
      Type         |-> "CityLookup",
      LocationName |-> row.city_ascii,
      Country      |-> row.country,
      Lat          |-> row.lat,
      Lon          |-> row.lng,
      Population   |-> PopOf(row) ]

\* Lines 68-76: city_data of a row, with the cell-centre coordinates.
CityDataOf(row) ==
    LET gy == row.lat \div GRID_DEG
        gx == row.lng \div GRID_DEG
    IN  [ GridID       |-> GridOf(row.lat, row.lng),
          City         |-> row.city_ascii,
          LocationName |-> row.city_ascii,
          Country      |-> row.country,
          Lat          |-> (gy * GRID_DEG) + (GRID_DEG \div 2),
          Lon          |-> (gx * GRID_DEG) + (GRID_DEG \div 2),
          Population   |-> PopOf(row) ]

\* Mutant: a later point of equal population replaces the representative.
ReplacesOrEqual(city_data, stored) == city_data.Population >= stored.Population

\* if city_data['Population'] > grid_map[grid_id]['Population']
Replaces(city_data, stored) == city_data.Population > stored.Population

\* Lines 78-82: the collision logic on grid_map (a dict: a replaced key
\* keeps its place in the insertion order).
GridMapPut(gm, city_data) ==
    IF \E n \in 1..Len(gm) : gm[n].GridID = city_data.GridID
    THEN LET n == CHOOSE m \in 1..Len(gm) : gm[m].GridID = city_data.GridID
         IN  IF Replaces(city_data, gm[n]) THEN [gm EXCEPT ![n] = city_data] ELSE gm
    ELSE Append(gm, city_data)

\* unique_grids[i]['IsAnchor'] = flag
SetAnchor(g, flag) ==
    [f \in DOMAIN g \cup {"IsAnchor"} |-> IF f = "IsAnchor" THEN flag ELSE g[f]]

\* stride = int(1 / ANCHOR_PERCENTAGE)
Stride == 100 \div ANCHOR_PERCENTAGE

\* Mutant: the offset is ignored, every stride-th cell from 0 is taken.
OnStrideFromZero(pos, offset) == pos % Stride = 0

\* if (i - start_index) % stride == 0, for the 0-based position i
OnStride(pos, offset) == (pos - offset) % Stride = 0

\* Lines 94-99: Pass 1 on the sorted list.
MarkSpatial(sorted, offset) ==
    [n \in 1..Len(sorted) |-> SetAnchor(sorted[n], OnStride(n - 1, offset))]

\* target_pop_count = int(len(unique_grids) * ANCHOR_PERCENTAGE)
TargetPopCount(n) == (n * ANCHOR_PERCENTAGE) \div 100

\* Mutant: the top-up is taken from all cells, anchors included.
NonAnchorsAll(s) == {n \in 1..Len(s) : TRUE}

\* non_anchors = [g for g in unique_grids if not g['IsAnchor']], as positions
NonAnchors(s) == {n \in 1..Len(s) : ~s[n].IsAnchor}

\* Mutant: the top-up takes the least populated cells.
RanksBeforeAscending(s, m, n) ==
    \/ s[m].Population < s[n].Population
    \/ s[m].Population = s[n].Population /\ m < n

\* non_anchors.sort(key=lambda x: x['Population'], reverse=True): position m
\* comes before position n (the sort is stable).
RanksBefore(s, m, n) ==
    \/ s[m].Population > s[n].Population
    \/ s[m].Population = s[n].Population /\ m < n

Min(a, b) == IF a <= b THEN a ELSE b

\* Lines 104-111: the positions Pass 2 marks, the first
\* min(len(non_anchors), target_pop_count) of the sorted non-anchors.
TopUp(s) ==
    LET non == NonAnchors(s)
        cnt == Min(Cardinality(non), TargetPopCount(Len(s)))
    IN  {n \in non : Cardinality({m \in non : RanksBefore(s, m, n)}) < cnt}

\* The set of values of a sequence.
Range(s) == {s[n] : n \in 1..Len(s)}

\* Lines 24-28: read the point source; without it return [], [].
ReadSource ==
    /\ pc = "main"
    /\ pc' = IF source_exists THEN "index" ELSE "returned"
    /\ UNCHANGED <<upVars, grids, lookups, answer, file, file0, resumed, fetchVars,
                   outVars, genVars>>

\* Lines 39-82: one iteration of the indexing loop.
MapCity ==
    /\ pc = "index"
    /\ city_idx < Len(points)
    /\ LET row == points[city_idx + 1]
       IN  /\ lookups' = Append(lookups, LookupRecord(row))
           /\ grid_map' = GridMapPut(grid_map, CityDataOf(row))
    /\ city_idx' = city_idx + 1
    /\ UNCHANGED <<upVars, grids, answer, file, file0, resumed, pc, fetchVars, outVars,
                   source_exists, points, start_index, spatial_ids,
                   spatial_count, pop_ids, pop_count>>

\* Lines 84-89: unique_grids = list(grid_map.values()), sorted North-West
\* to South-East.
SortUnique ==
    /\ pc = "index"
    /\ city_idx = Len(points)
    /\ grids' = SortGrids(Range(grid_map))
    /\ pc' = "pass1"
    /\ UNCHANGED <<upVars, lookups, answer, file, file0, resumed, fetchVars, outVars,
                   genVars>>

\* Lines 90-101: the stride, the random offset, Pass 1.
SamplePass1 ==
    /\ pc = "pass1"
    /\ \E offset \in 0..(Stride - 1) :
         /\ start_index' = offset
         /\ grids' = MarkSpatial(grids, offset)
    /\ LET marked == {n \in 1..Len(grids) : OnStride(n - 1, start_index')}
       IN  /\ spatial_ids' = {grids[n].GridID : n \in marked}
           /\ spatial_count' = Cardinality(marked)
    /\ pc' = "pass2"
    /\ UNCHANGED <<upVars, lookups, answer, file, file0, resumed, fetchVars, outVars,
                   source_exists, points, city_idx, grid_map, pop_ids, pop_count>>

\* Lines 103-116: Pass 2, then return unique_grids, all_city_lookups.
SamplePass2 ==
    /\ pc = "pass2"
    /\ \E marked \in {TopUp(grids)} :
           /\ grids' = [n \in 1..Len(grids) |->
                         IF n \in marked THEN SetAnchor(grids[n], TRUE) ELSE grids[n]]
           /\ pop_ids' = {grids[n].GridID : n \in marked}
           /\ pop_count' = Cardinality(marked)
    /\ pc' = "returned"
    /\ UNCHANGED <<upVars, lookups, answer, file, file0, resumed, fetchVars, outVars,
                   source_exists, points, city_idx, grid_map, start_index,
                   spatial_ids, spatial_count>>

\* Mutant: fetch_anchors is called whatever generate_unique_grids returned.
MainProceedsAlways(g) == TRUE

\* if grids:
MainProceeds(g) == g # <<>>

\* Lines 255-258: __main__ after generate_unique_grids returned.
MainAfterGenerate ==
    /\ pc = "returned"
    /\ pc' = IF MainProceeds(grids) THEN "load" ELSE "exit"
    /\ UNCHANGED <<upVars, grids, lookups, answer, file, file0, resumed, fetchVars,
                   outVars, genVars>>

\* ------------------------------------------------------------------ upload
\* Strings are sequences of one-character strings.
\* str.replace(ch, by), by being a string of length 0 or 1.
RECURSIVE Replace(_, _, _)
Replace(str, ch, by) ==
    IF str = <<>> THEN <<>>
    ELSE (IF Head(str) = ch THEN by ELSE <<Head(str)>>) \o Replace(Tail(str), ch, by)

\* A LocationName that is not a string (the NaN of an empty cell).
NaN == <<"float('nan')">>

\* record['LocationName'].replace(' ', '_').replace('#', '')
CleanName(name) == Replace(Replace(name, " ", <<"_">>), "#", <<>>)

\* Line 130-136: the key rewrite of a CityLookup record; <<>> when
\* .replace raises (the name is not a string) and the record is skipped.
Rewritten(record) ==
    IF record.Type = "CityLookup"
    THEN IF record.LocationName = NaN THEN <<>>
         ELSE <<[record EXCEPT !.Timestamp =
                    <<"0000-00-00_METADATA", "#">> \o CleanName(record.LocationName)]>>
    ELSE <<record>>

\* pk_sig = f"{record['GridID']}::{record['Timestamp']}"
PkSig(record) == record.GridID \o <<":", ":">> \o record.Timestamp

\* Mutant: no key is taken as seen.
AlreadySeenNever(pk_sig, seen) == FALSE

\* if pk_sig in seen_keys
AlreadySeen(pk_sig, seen) == pk_sig \in seen

\* What one batch_write_item call can answer, by the store's condition.
StoreAnswers ==
    [ healthy |-> {"ok"},
      busy    |-> {"unprocessed"},
      faulty  |-> {"ok", "raise", "unprocessed", "first_unprocessed"} ]

\* The first n elements of a sequence, and the rest.
Take(seq, n) == SubSeq(seq, 1, Min(n, Len(seq)))
Drop(seq, n) == SubSeq(seq, Min(n, Len(seq)) + 1, Len(seq))

\* The batch writer's _flush: the first BatchSize items leave the buffer and
\* go to batch_write_item; the items the answer lists as unprocessed are put
\* back at the end of the buffer; an exception of the call propagates.
Flush(buffer, out) ==
    LET items_to_send == Take(buffer, BatchSize)
        rest == Drop(buffer, BatchSize)
        unprocessed == CASE out = "unprocessed"       -> items_to_send
                         [] out = "first_unprocessed" -> Take(items_to_send, 1)
                         [] OTHER                     -> <<>>
    IN  [ buffer   |-> IF out = "raise" THEN rest ELSE rest \o unprocessed,
          accepted |-> IF out = "raise" THEN {}
                       ELSE Range(items_to_send) \ Range(unprocessed),
          raised   |-> out = "raise" ]

\* Lines 128-152: one iteration of the upload loop, with the flush
\* batch.put_item runs when the buffer holds BatchSize items.
UploadRecord ==
    /\ pc = "upload"
    /\ rec_idx < Len(data)
    /\ rec_idx' = rec_idx + 1
    /\ LET rewritten == Rewritten(data[rec_idx + 1])
       IN  IF rewritten = <<>>
           THEN /\ surfaced' = surfaced + 1
                /\ UNCHANGED <<seen_keys, skipped_dupes, handed, items_buffer,
                               table_items, batch_writes, put_raised>>
           ELSE LET record == rewritten[1]
                    pk_sig == PkSig(record)
                IN  IF AlreadySeen(pk_sig, seen_keys)
                    THEN /\ skipped_dupes' = skipped_dupes + 1
                         /\ UNCHANGED <<seen_keys, handed, items_buffer, table_items,
                                        surfaced, batch_writes, put_raised>>
                    ELSE /\ seen_keys' = seen_keys \cup {pk_sig}
                         /\ handed' = Append(handed, record)
                         /\ UNCHANGED skipped_dupes
                         /\ IF Len(items_buffer) + 1 >= BatchSize
                            THEN \E out \in StoreAnswers[store] :
                                   \E f \in {Flush(Append(items_buffer, record), out)} :
                                     /\ items_buffer' = f.buffer
                                     /\ table_items' = table_items \cup f.accepted
                                     /\ surfaced' = IF f.raised THEN surfaced + 1 ELSE surfaced
                                     /\ put_raised' = IF f.raised THEN put_raised \cup {pk_sig}
                                                      ELSE put_raised
                                     /\ batch_writes' = (batch_writes + 1) % 2
                            ELSE /\ items_buffer' = Append(items_buffer, record)
                                 /\ UNCHANGED <<table_items, surfaced, batch_writes,
                                                put_raised>>
    /\ UNCHANGED <<grids, lookups, answer, file, file0, resumed, pc, fetchVars,
                   outVars, genVars, data, store>>

\* Line 127, leaving the with block: one round of the batch writer's
\* __exit__ loop (while self._items_buffer: self._flush()); an exception of
\* the flush leaves upload.
ExitFlush ==
    /\ pc = "upload"
    /\ rec_idx = Len(data)
    /\ items_buffer # <<>>
    /\ \E out \in StoreAnswers[store] :
         \E f \in {Flush(items_buffer, out)} :
           /\ items_buffer' = f.buffer
           /\ table_items' = table_items \cup f.accepted
           /\ pc' = IF f.raised THEN "raised" ELSE pc
           /\ batch_writes' = (batch_writes + 1) % 2
    /\ UNCHANGED <<grids, lookups, answer, file, file0, resumed, fetchVars,
                   outVars, genVars, data, store, rec_idx, seen_keys,
                   skipped_dupes, handed, surfaced, put_raised>>

\* Lines 154-156: the completion report.
Report ==
    /\ pc = "upload"
    /\ rec_idx = Len(data)
    /\ items_buffer = <<>>
    /\ pc' = "uploaded"
    /\ UNCHANGED <<grids, lookups, answer, file, file0, resumed, fetchVars,
                   outVars, genVars, upVars>>

\* ------------------------------------------------------------------- query
\* Mutant: the query takes its arguments as (lon, lat).
SearchByCoordsSwapped(lat, lon) ==
    <<"GRID", lat \div QUERY_GRID_DEG, lon \div QUERY_GRID_DEG>>

\* query.py, search_by_coords: gx = math.floor(lon / GRID_DEG),
\* gy = math.floor(lat / GRID_DEG), f"GRID#{gx}#{gy}".
SearchByCoords(lat, lon) ==
    <<"GRID", lon \div QUERY_GRID_DEG, lat \div QUERY_GRID_DEG>>

\* ------------------------------------------------------------------ Init
\* The cell representatives generate_unique_grids returns for the candidate
\* cells S, those of A carrying IsAnchor.
GridsOf(S, A) ==
    SortGrids({CityData(CellAt(k)[1], CellAt(k)[2], k \in A) : k \in S})

\* One lookup record per point: cell k holds 1 + (k % 2) points.
RECURSIVE LookupsOf(_)
LookupsOf(S) ==
    IF S = {} THEN <<>>
    ELSE LET k == CHOOSE x \in S : \A y \in S : x <= y
             c == CellAt(k)
         IN  (IF k % 2 = 1 THEN <<CityLookup(c[1], c[2], 1), CityLookup(c[1], c[2], 2)>>
                           ELSE <<CityLookup(c[1], c[2], 1)>>)
             \o LookupsOf(S \ {k})

IdOfCell(k) == GridID(CellAt(k)[1], CellAt(k)[2])

\* Checkpoint files an earlier execution can have left: none, an unreadable
\* one, or the dump of a cache over any cells (possibly of another sampling).
CheckpointFiles ==
    {NoFile, TornFile} \cup
    {DumpFile([g \in {IdOfCell(k) : k \in C} |-> Forecast(g)]) :
        C \in SUBSET (1..MaxCells)}

\* upload is not running.
UploadIdle ==
    /\ data = <<>>
    /\ store = "healthy"
    /\ rec_idx = 0
    /\ seen_keys = {}
    /\ skipped_dupes = 0
    /\ handed = <<>>
    /\ items_buffer = <<>>
    /\ table_items = {}
    /\ surfaced = 0
    /\ batch_writes = 0
    /\ put_raised = {}

\* generate_unique_grids has returned grids and lookups.
GenDone ==
    /\ source_exists = TRUE
    /\ points = <<>>
    /\ city_idx = 0
    /\ grid_map = <<>>
    /\ start_index = 0
    /\ spatial_ids = {}
    /\ spatial_count = 0
    /\ pop_ids = {}
    /\ pop_count = 0

InitCommon ==
    /\ GenDone
    /\ UploadIdle
    /\ file0 = file
    /\ resumed = FALSE
    /\ pc = "load"
    /\ real_data_cache = EmptyMap
    /\ grids_to_fetch = <<>>
    /\ i = 0
    /\ requested = NoRequests
    /\ saw429 = FALSE
    /\ slept = TRUE
    /\ loaded = {}
    /\ failed = {}
    /\ final_records = <<>>
    /\ written = FALSE
    /\ nearest = EmptyMap
    /\ dist2 = EmptyMap
    /\ noise = EmptyMap

Init ==
    /\ \E S \in SUBSET (1..MaxCells) \ {{}} : \E A \in SUBSET S :
         /\ grids = GridsOf(S, A)
         /\ lookups = LookupsOf(S)
         /\ answer \in [{IdOfCell(k) : k \in A} -> Outcomes]
    /\ file \in CheckpointFiles
    /\ InitCommon

Next ==
    \/ LoadCheckpoint
    \/ FetchRequest
    \/ SaveCheckpoint
    \/ FinalSave
    \/ Terminate

Spec == Init /\ [][Next]_vars

\* The long run: LongCells anchors in a row, no checkpoint, and every cell
\* answering 200 except at most one.
LongIDs == {GridID(n - 1, 0) : n \in 1..LongCells}
AllOk == [g \in LongIDs |-> "200"]

InitLong ==
    /\ grids = [n \in 1..LongCells |-> CityData(n - 1, 0, TRUE)]
    /\ lookups = [n \in 1..LongCells |-> CityLookup(n - 1, 0, 1)]
    /\ answer \in {AllOk} \cup
                  {[AllOk EXCEPT ![g] = o] : g \in LongIDs, o \in Outcomes \ {"200"}}
    /\ file = NoFile
    /\ InitCommon

NextLong ==
    \/ LoadCheckpoint
    \/ FetchRequest
    \/ SaveCheckpoint
    \/ FinalSave

SpecLong == InitLong /\ [][NextLong]_vars

\* interpolate_and_save(all_grids, real_data_cache, all_city_lookups) on the
\* cell representatives of any candidate cells and on any cache fetch_anchors
\* can return: the checkpoint was dumped from that cache by the final save.
InitInterp ==
    /\ \E S \in SUBSET (1..MaxCells) \ {{}} : \E A \in SUBSET S :
         /\ grids = GridsOf(S, A)
         /\ lookups = LookupsOf(S)
    /\ GenDone
    /\ UploadIdle
    /\ answer = EmptyMap
    /\ \E C \in SUBSET (1..MaxCells) :
         real_data_cache = [g \in {IdOfCell(k) : k \in C} |-> Forecast(g)]
    /\ file = DumpFile(real_data_cache)
    /\ file0 = NoFile
    /\ resumed = FALSE
    /\ pc = "done"
    /\ grids_to_fetch = <<>>
    /\ i = 0
    /\ requested = NoRequests
    /\ saw429 = FALSE
    /\ slept = TRUE
    /\ loaded = {}
    /\ failed = {}
    /\ final_records = <<>>
    /\ written = FALSE
    /\ nearest = EmptyMap
    /\ dist2 = EmptyMap
    /\ noise = EmptyMap

NextInterp == Interpolate

SpecInterp == InitInterp /\ [][NextInterp]_vars

\* Coordinates of the small point lists, in hundredths of a degree: two
\* points of cell (0, 0) and one of cell (0, -1).
SmallCoords == {<<1, 1>>, <<10, 5>>, <<0 - 5, 3>>}

\* Populations of the small point lists: missing, zero, positive.
SmallPops == {<<>>, <<0>>, <<7>>}

\* The point of the long lists at file position j: one point per cell, the
\* cells in rows of seven, the file order not the sorted order.
LongRow(j, pat) ==
    LET gx == (j - 1) % 7
        gy == ((j - 1) \div 7) - 2
        pop == IF pat = 0 THEN <<((j * 7) % 5) * 10>>
               ELSE IF j % 6 = 0 THEN <<>> ELSE <<((j * 3) % 4) * 10>>
    IN  Row(<<"city", j>>, (gy * GRID_DEG) + 4, (gx * GRID_DEG) + 9, pop)

\* The point lists generate_unique_grids is run on.
PointLists ==
    UNION {{[j \in 1..n |-> Row(<<"city", j>>, c[j][1], c[j][2], p[j])] :
                c \in [1..n -> SmallCoords], p \in [1..n -> SmallPops]} :
           n \in 0..MaxPoints}
    \cup {[j \in 1..n |-> LongRow(j, pat)] : n \in 1..LongPoints, pat \in {0, 1}}

\* Before generate_unique_grids: nothing indexed, nothing fetched.
InitBlank ==
    /\ city_idx = 0
    /\ grid_map = <<>>
    /\ start_index = 0
    /\ spatial_ids = {}
    /\ spatial_count = 0
    /\ pop_ids = {}
    /\ pop_count = 0
    /\ grids = <<>>
    /\ lookups = <<>>
    /\ file0 = file
    /\ resumed = FALSE
    /\ real_data_cache = EmptyMap
    /\ grids_to_fetch = <<>>
    /\ i = 0
    /\ requested = EmptyMap
    /\ saw429 = FALSE
    /\ slept = TRUE
    /\ loaded = {}
    /\ failed = {}
    /\ final_records = <<>>
    /\ written = FALSE
    /\ nearest = EmptyMap
    /\ dist2 = EmptyMap
    /\ noise = EmptyMap

\* generate_unique_grids alone, on every point list.
InitGen ==
    /\ source_exists \in BOOLEAN
    /\ points \in (IF source_exists THEN PointLists ELSE {<<>>})
    /\ answer = EmptyMap
    /\ file = NoFile
    /\ pc = "main"
    /\ InitBlank
    /\ UploadIdle

NextGen == ReadSource \/ MapCity \/ SortUnique \/ SamplePass1 \/ SamplePass2

SpecGen == InitGen /\ [][NextGen]_vars

\* The point lists of the whole pipeline: populated or unpopulated points.
MainPointLists ==
    UNION {{[j \in 1..n |-> Row(<<"city", j>>, c[j][1], c[j][2], p[j])] :
                c \in [1..n -> SmallCoords], p \in [1..n -> {<<>>, <<7>>}]} :
           n \in 0..MainPoints}

\* The cells of the small coordinates.
SmallIDs == {GridOf(c[1], c[2]) : c \in SmallCoords}

\* The whole pipeline of __main__: the point source present or absent, the
\* checkpoint absent or left by an earlier run, every request answered 200
\* or cell (0, 0) answering 500.
InitMain ==
    /\ source_exists \in BOOLEAN
    /\ points \in (IF source_exists THEN MainPointLists ELSE {<<>>})
    /\ answer \in {[g \in SmallIDs |-> "200"],
                    [g \in SmallIDs |-> IF g = GridID(0, 0) THEN "500" ELSE "200"]}
    /\ file \in {NoFile, DumpFile([g \in {GridID(0, 0)} |-> Forecast(g)])}
    /\ pc = "main"
    /\ InitBlank
    /\ UploadIdle

NextMain ==
    \/ ReadSource
    \/ MapCity
    \/ SortUnique
    \/ SamplePass1
    \/ SamplePass2
    \/ MainAfterGenerate
    \/ LoadCheckpoint
    \/ FetchRequest
    \/ SaveCheckpoint
    \/ FinalSave
    \/ Interpolate

SpecMain == InitMain /\ [][NextMain]_vars

\* A record of the artifact, with the fields upload reads.
Record(type, gid, ts, name) ==
    [Type |-> type, GridID |-> gid, Timestamp |-> ts, LocationName |-> name]

\* The records of the small lists: lookups of two cells, their names equal
\* after cleaning or not a string, and weather records of two timestamps.
SmallRecords ==
    {Record("CityLookup", <<"G", "0">>, <<"0000-00-00_METADATA">>, name) :
        name \in {<<"a", " ", "b">>, <<"a", "_", "b">>, <<"#", "a", "_", "#", "b">>, NaN}}
    \cup {Record("CityLookup", <<"G", "1">>, <<"0000-00-00_METADATA">>, <<"a", " ", "b">>)}
    \cup {Record("Hourly", <<"G", "0">>, <<"T", "0">>, <<"a", " ", "b">>),
          Record("Hourly", <<"G", "0">>, <<"T", "1">>, <<"a", " ", "b">>),
          Record("Hourly", <<"G", "1">>, <<"T", "0">>, <<"a", " ", "b">>)}

Digit == <<"0", "1", "2", "3", "4", "5", "6", "7", "8", "9">>

\* The record of the long lists at position j: one timestamp each.
LongRecord(j) ==
    Record("Hourly", <<"G", "0">>, <<"T", Digit[(j \div 10) + 1], Digit[(j % 10) + 1]>>, <<"a">>)

\* The record lists upload is run on; a long list may end with a copy of
\* its first record or of the record that fills the first batch.
RecordLists ==
    UNION {[1..n -> SmallRecords] : n \in 0..MaxRecords}
    \cup {[j \in 1..n |-> LongRecord(IF dup > 0 /\ j = n THEN dup ELSE j)] :
              n \in BatchSize..LongRecords, dup \in {0, 1, BatchSize}}

\* upload, after the table handling and the load of the artifact.
InitUpload ==
    /\ data \in RecordLists
    /\ store \in DOMAIN StoreAnswers
    /\ rec_idx = 0
    /\ seen_keys = {}
    /\ skipped_dupes = 0
    /\ handed = <<>>
    /\ items_buffer = <<>>
    /\ table_items = {}
    /\ surfaced = 0
    /\ batch_writes = 0
    /\ put_raised = {}
    /\ pc = "upload"
    /\ source_exists = TRUE
    /\ points = <<>>
    /\ answer = EmptyMap
    /\ file = NoFile
    /\ InitBlank

NextUpload == UploadRecord \/ ExitFlush \/ Report

SpecUpload == InitUpload /\ [][NextUpload]_vars

\* upload runs on: a step that can be taken is taken.
SpecUploadFair == InitUpload /\ [][NextUpload]_vars /\ WF_vars(NextUpload)

\* ---------------------------------------------------------------- claims
InFetchLoop == pc \in {"request", "save"}
Returned == pc \in {"done", "finished"}
ValidIDs ==
    {ValidAnchors(grids, real_data_cache)[n].GridID :
        n \in 1..Len(ValidAnchors(grids, real_data_cache))}
WeatherIdx == {k \in 1..Len(final_records) :
                 final_records[k].Type \in {"Hourly", "Daily"}}
Ok200 == {g \in AnchorIDs : answer[g] = "200"}

\* C1: in any run of fetch_anchors no request is issued for a cell whose
\* GridID is a key of the cache loaded from the checkpoint, and no cell is
\* requested more than once.
C1_NoRefetch ==
    \A g \in GridIDs : requested[g] <= 1 /\ (g \in loaded => requested[g] = 0)

C1_Witness ==
    /\ pc = "done"
    /\ \E g \in AnchorIDs : g \in loaded
    /\ \E g \in AnchorIDs : requested[g] = 1

\* C2: once a 429 response was received, no further request is issued in
\* that run.
C2_NoRequestAfter429 ==
    [][(saw429 /\ pc' # "load") => requested' = requested]_vars

\* The cache one uninterrupted run returns when started on the checkpoint
\* file0: the loaded entries, and the payload of every other anchor that
\* answers 200.
UninterruptedCache ==
    LET c0 == LoadedCache(file0)
    IN  [g \in DOMAIN c0 \cup Ok200 |-> IF g \in DOMAIN c0 THEN c0[g] ELSE Forecast(g)]

\* The checkpoint the first run started from holds only what a request of
\* this anchor set answers (every cell answers the same way each time).
FirstCheckpointOfThisAnchorSet ==
    \A g \in DOMAIN LoadedCache(file0) :
        g \in Ok200 /\ LoadedCache(file0)[g] = Forecast(g)

\* C3: resume equivalence. The cache fetch_anchors returns, in the first run
\* or in a run that follows a terminated one, is the cache of one
\* uninterrupted run: no entry lost, none added, every payload the same.
C3_ResumeEquivalence ==
    (pc = "done" /\ (~resumed \/ FirstCheckpointOfThisAnchorSet))
        => real_data_cache = UninterruptedCache

C3_Witness ==
    /\ pc = "done"
    /\ resumed
    /\ file0 = NoFile
    /\ loaded # {}
    /\ \E g \in AnchorIDs : requested[g] = 1
    /\ \E g \in AnchorIDs : answer[g] # "200"

\* Cache entries fetched in this run that the checkpoint file does not hold.
Unsaved ==
    {g \in DOMAIN real_data_cache \ loaded : g \notin DOMAIN LoadedCache(file)}

\* C4: at every point of the fetch loop at most K cache entries fetched in
\* this run are missing from the checkpoint file.
C4_UnsavedAtMostK == InFetchLoop => Cardinality(Unsaved) <= K

\* C5: a request that fails with another status than 200 or 429, or with an
\* exception, leaves the cache as it was and the loop running; every anchor
\* left to fetch is still requested, and the failed cell is neither cached
\* nor a valid anchor of interpolate_and_save.
C5_FailedAnchorSkipped ==
    /\ [][(pc = "request" /\ i < Len(grids_to_fetch) /\ pc' # "load"
             /\ answer[grids_to_fetch[i + 1].GridID] \in {"500", "exception"})
          => (/\ real_data_cache' = real_data_cache
              /\ pc' \in {"request", "save"}
              /\ grids_to_fetch' = grids_to_fetch
              /\ grids_to_fetch[i + 1].GridID \in failed')]_vars
    /\ [](pc = "done" =>
            /\ \A n \in 1..Len(grids_to_fetch) :
                 requested[grids_to_fetch[n].GridID] = 1
            /\ \A g \in failed :
                 /\ g \notin DOMAIN real_data_cache
                 /\ \A n \in 1..Len(ValidAnchors(grids, real_data_cache)) :
                      ValidAnchors(grids, real_data_cache)[n].GridID # g)

C5_Witness ==
    /\ pc = "done"
    /\ ValidIDs # {}
    /\ \E m, n \in 1..Len(grids_to_fetch) :
         /\ m < n
         /\ grids_to_fetch[m].GridID \in failed
         /\ grids_to_fetch[n].GridID \in DOMAIN real_data_cache

\* C6: every GridID of the returned cache, and every valid anchor of
\* interpolate_and_save, is a cell marked IsAnchor in this run.
C6_CacheWithinAnchors ==
    Returned => (DOMAIN real_data_cache \subseteq AnchorIDs /\ ValidIDs \subseteq AnchorIDs)

\* C7: an emitted Hourly or Daily record has IsAnchor = true exactly when
\* the cell's nearest valid anchor is the cell itself.
C7_IsAnchorIffOwnNearest ==
    written => \A k \in WeatherIdx :
        final_records[k].IsAnchor <=>
            (nearest[final_records[k].GridID] = final_records[k].GridID)

\* The Python index of the sample a weather record was emitted for.
HourOf(r, h_data) == CHOOSE h \in HourlyRange : h_data.time[h + 1] = r.Timestamp
DayOf(r, d_data) ==
    CHOOSE d \in DailyRange : d_data.time[d + 1] \o <<"T12:00:00">> = r.Timestamp

\* The records of cell g carry, for temperature and wind speed, the values
\* conv_t and conv_w make of the cell's own fetched series.
OwnSeries(g, conv_t(_), conv_w(_)) ==
    LET h_data == HourlyOf(real_data_cache[g])
        d_data == DailyOf(real_data_cache[g])
    IN  \A k \in WeatherIdx :
          LET r == final_records[k] IN
          r.GridID = g =>
            IF r.Type = "Hourly"
            THEN /\ r.Temperature = conv_t(h_data.temperature_2m[HourOf(r, h_data) + 1])
                 /\ r.WindSpeed = conv_w(h_data.wind_speed_10m[HourOf(r, h_data) + 1])
            ELSE /\ r.Temperature = conv_t(d_data.temperature_2m_max[DayOf(r, d_data) + 1])
                 /\ r.WindSpeed = conv_w(d_data.wind_speed_10m_max[DayOf(r, d_data) + 1])

Same(x) == x
FlooredRound1(x) == Round1(Max(0, x))

OwnQuery(g) == nearest[g] = g /\ dist2[g] = 0 /\ noise[g] = 0

CountOf(g, type) ==
    Cardinality({k \in 1..Len(final_records) :
                   final_records[k].Type = type /\ final_records[k].GridID = g})

\* C9: with at least one valid anchor, the output holds 24 Hourly and 6 Daily
\* records for every cell and one CityLookup record per lookup record:
\* |lookups| + 30 * |cells| records.
C9_GapFree ==
    (pc = "finished" /\ ValidIDs # {}) =>
        /\ written
        /\ Len(final_records) = Len(lookups) + RECORDS_PER_GRID * Len(grids)
        /\ \A g \in GridIDs :
             CountOf(g, "Hourly") = 24 /\ CountOf(g, "Daily") = 6
        /\ Cardinality({k \in 1..Len(final_records) :
                          final_records[k].Type = "CityLookup"}) = Len(lookups)
        /\ \A k \in 1..Len(lookups) : final_records[k] = lookups[k]

C9_Witness ==
    /\ written
    /\ Len(grids) >= 2
    /\ \E g \in GridIDs : g \notin AnchorIDs
    /\ \E g \in AnchorIDs : g \notin ValidIDs

\* C10: WindSpeed of every emitted Hourly and Daily record is >= 0.
C10_WindNonNegative ==
    \A k \in WeatherIdx : final_records[k].WindSpeed >= 0

C10_Witness ==
    /\ written
    /\ \E g \in GridIDs :
         /\ noise[g] < 0
         /\ HourlyOf(real_data_cache[nearest[g]]).wind_speed_10m[1] + noise[g] < 0
         /\ \E k \in WeatherIdx :
              final_records[k].GridID = g /\ final_records[k].WindSpeed = 0

\* ------------------------------------------- claims: generate_unique_grids
\* The indexing loop has gone through every point.
Indexed == source_exists /\ pc \in {"index", "pass1", "pass2", "returned"} /\ city_idx = Len(points)

\* File positions of the points the code maps to the cell gid.
PointsOfCell(gid) == {j \in 1..Len(points) : GridOf(points[j].lat, points[j].lng) = gid}

\* The first-seen point of maximum population among the points of the cell.
FirstLargest(gid) ==
    CHOOSE j \in PointsOfCell(gid) :
        /\ \A k \in PointsOfCell(gid) : PopOf(points[k]) <= PopOf(points[j])
        /\ \A k \in PointsOfCell(gid) : PopOf(points[k]) = PopOf(points[j]) => j <= k

\* C11: after the indexing loop, every cell that has a point has exactly one
\* representative, and it is the first-seen point of maximum population
\* (missing counted as 0) among the points mapping to that cell.
C11_RepresentativeIsFirstLargest ==
    Indexed =>
        /\ {grid_map[n].GridID : n \in 1..Len(grid_map)}
              = {GridOf(points[j].lat, points[j].lng) : j \in 1..Len(points)}
        /\ \A m, n \in 1..Len(grid_map) : grid_map[m].GridID = grid_map[n].GridID => m = n
        /\ \A n \in 1..Len(grid_map) :
              LET j == FirstLargest(grid_map[n].GridID)
              IN  /\ grid_map[n].City = points[j].city_ascii
                  /\ grid_map[n].Population = PopOf(points[j])

\* A cell with three points, the largest population held by the second and
\* the third: the second is the representative.
C11_Witness ==
    /\ Indexed
    /\ \E n \in 1..Len(grid_map) : \E j, k, l \in PointsOfCell(grid_map[n].GridID) :
          /\ j < k /\ k < l
          /\ PopOf(points[j]) < PopOf(points[k])
          /\ PopOf(points[k]) = PopOf(points[l])
          /\ grid_map[n].City = points[k].city_ascii


\* generate_unique_grids has returned, the point source being present.
GenReturned == source_exists /\ pc = "returned"

\* C12: the lookup list holds one record per processed point, in input
\* order, with the point's name, raw latitude and longitude and the GridID of
\* its cell; at return there is one per input point and the unique cell
\* representatives are no more than the input points.
C12_OneLookupPerPoint ==
    /\ source_exists =>
          /\ Len(lookups) = city_idx
          /\ \A j \in 1..Len(lookups) :
                /\ lookups[j].Type = "CityLookup"
                /\ lookups[j].LocationName = points[j].city_ascii
                /\ lookups[j].Lat = points[j].lat
                /\ lookups[j].Lon = points[j].lng
                /\ lookups[j].GridID = GridID(points[j].lng \div GRID_DEG, points[j].lat \div GRID_DEG)
    /\ GenReturned =>
          /\ Len(lookups) = Len(points)
          /\ Len(grids) <= Len(points)

\* Returned with a point that is not the representative of its cell: its
\* lookup record is there with coordinates that are not the cell centre, and
\* the representatives are fewer than the points.
C12_Witness ==
    /\ GenReturned
    /\ Len(grids) < Len(points)
    /\ \E j \in 1..Len(points) : \E n \in 1..Len(grids) :
          /\ grids[n].GridID = lookups[j].GridID
          /\ grids[n].City # lookups[j].LocationName
          /\ lookups[j].Lat # grids[n].Lat

\* Pass 1 has run on the sorted representatives.
AfterPass1 == source_exists /\ pc \in {"pass2", "returned"}

\* C13: the representatives are in (descending latitude, ascending
\* longitude) order, one per cell; Pass 1 marks exactly those at the 0-based
\* positions congruent to the offset modulo the stride (20) and no other;
\* when the stride divides the number of cells the Pass-1 count is their
\* quotient.
C13_Pass1MarksEveryStride ==
    /\ Stride = 20
    /\ AfterPass1 =>
          /\ start_index \in 0..(Stride - 1)
          /\ {grids[n].GridID : n \in 1..Len(grids)}
                = {GridID(points[j].lng \div GRID_DEG, points[j].lat \div GRID_DEG) : j \in 1..Len(points)}
          /\ \A m, n \in 1..Len(grids) :
                m < n => \/ grids[m].Lat > grids[n].Lat
                         \/ grids[m].Lat = grids[n].Lat /\ grids[m].Lon < grids[n].Lon
          /\ spatial_ids = {grids[n].GridID : n \in {m \in 1..Len(grids) : (m - 1) % Stride = start_index}}
          /\ spatial_count = Cardinality(spatial_ids)
          /\ pc = "pass2" =>
                \A n \in 1..Len(grids) : grids[n].IsAnchor <=> ((n - 1) % Stride = start_index)
          /\ Len(grids) % Stride = 0 => spatial_count = Len(grids) \div Stride

\* Forty cells, a non-zero offset: two cells marked, twenty positions apart,
\* the first of them not the first cell of the file.
C13_Witness ==
    /\ pc = "pass2"
    /\ Len(grids) = 2 * Stride
    /\ start_index > 0
    /\ spatial_count = 2
    /\ grids[start_index + 1].IsAnchor /\ grids[start_index + 1 + Stride].IsAnchor
    /\ grids[1].City # points[1].city_ascii

\* GridIDs of the returned representatives that are anchors.
FinalAnchorIDs == {grids[n].GridID : n \in {m \in 1..Len(grids) : grids[m].IsAnchor}}

\* C14: at return Pass 2 has marked at most floor(unique_count * 5 / 100)
\* cells, none of them marked by Pass 1; the anchors are the two sets
\* together, their number is spatial_count + pop_count and it is at most the
\* number of unique cells.
C14_Pass2DisjointAndBounded ==
    GenReturned =>
        /\ pop_count = Cardinality(pop_ids)
        /\ pop_count * 100 <= Len(grids) * ANCHOR_PERCENTAGE
        /\ pop_ids \cap spatial_ids = {}
        /\ FinalAnchorIDs = spatial_ids \cup pop_ids
        /\ Cardinality(FinalAnchorIDs) = spatial_count + pop_count
        /\ spatial_count + pop_count <= Len(grids)

\* Both passes marked two cells, and a cell marked by Pass 1 is at least as
\* populated as one Pass 2 marked.
C14_Witness ==
    /\ GenReturned
    /\ spatial_count = 2
    /\ pop_count = 2
    /\ \E m, n \in 1..Len(grids) :
          /\ grids[m].GridID \in spatial_ids
          /\ grids[n].GridID \in pop_ids
          /\ grids[m].Population >= grids[n].Population

\* grid_map after the indexing loop over the rows pts.
RECURSIVE IndexAll(_)
IndexAll(pts) ==
    IF pts = <<>> THEN <<>>
    ELSE GridMapPut(IndexAll(SubSeq(pts, 1, Len(pts) - 1)), CityDataOf(pts[Len(pts)]))

\* The GridIDs Pass 1 marks in a run over the rows pts with the given offset.
Pass1IDs(pts, offset) ==
    LET marked == MarkSpatial(SortGrids(Range(IndexAll(pts))), offset)
    IN  {marked[n].GridID : n \in {m \in 1..Len(marked) : marked[m].IsAnchor}}

\* Point lists with the coordinates of pts and other populations: all
\* missing (every run agreeing with that one, any two runs agree), the
\* populations in reverse file order, and two arithmetic assignments.
OtherPopulations(pts) ==
    {[j \in 1..Len(pts) |-> [pts[j] EXCEPT !.population = <<>>]],
     [j \in 1..Len(pts) |-> [pts[j] EXCEPT !.population = pts[Len(pts) + 1 - j].population]],
     [j \in 1..Len(pts) |-> [pts[j] EXCEPT !.population = <<(j * 11) % 7>>]],
     [j \in 1..Len(pts) |-> [pts[j] EXCEPT !.population = <<Len(pts) - j>>]]}

\* C15: a second run over the same coordinates with the same offset and any
\* other populations marks the same GridIDs in Pass 1 as this run did.
C15_Pass1IgnoresPopulation ==
    (source_exists /\ pc = "pass2") =>
        \A other \in OtherPopulations(points) :
            Pass1IDs(other, start_index) = spatial_ids

\* Pass 1 marked a cell, and a run with other populations has another
\* representative for some cell.
C15_Witness ==
    /\ source_exists /\ pc = "pass2"
    /\ spatial_ids # {}
    /\ \E other \in OtherPopulations(points) :
          /\ \E n \in 1..Len(grid_map) : IndexAll(other)[n].City # grid_map[n].City
          /\ Pass1IDs(other, start_index) = spatial_ids

\* ------------------------------------------------------------ claims: upload
\* upload is in or past its loop.
InUpload == pc \in {"upload", "uploaded", "raised"}

\* The (GridID, Timestamp) pair of a record.
PairOf(record) == <<record.GridID, record.Timestamp>>

\* The pairs of the consumed records after the key rewrite, by position;
\* <<>> where the rewrite failed.
ConsumedPairs ==
    [j \in 1..rec_idx |->
        IF Rewritten(data[j]) = <<>> THEN <<>> ELSE PairOf(Rewritten(data[j])[1])]

\* The consumed records whose key rewrite did not fail, by position.
Keyed == {j \in 1..rec_idx : Rewritten(data[j]) # <<>>}

\* The consumed records whose pair, after the rewrite, a record before
\* them already had.
Repeats ==
    {j \in Keyed : \E k \in Keyed : k < j /\ ConsumedPairs[k] = ConsumedPairs[j]}

\* C16: no two items handed to the batch writer have the same (GridID,
\* Timestamp) pair; the handed items are, in order, the rewritten records
\* that repeat no earlier pair, and skipped_dupes counts the others.
C16_NoPairHandedTwice ==
    InUpload =>
        /\ \A m, n \in 1..Len(handed) :
              PairOf(handed[m]) = PairOf(handed[n]) => m = n
        /\ \A firsts \in {Keyed \ Repeats} :
              /\ Len(handed) = Cardinality(firsts)
              /\ \A j \in firsts :
                    handed[Cardinality({k \in firsts : k <= j})] = Rewritten(data[j])[1]
        /\ skipped_dupes = Cardinality(Repeats)

\* Two lookups of one cell whose names differ and are the same once
\* cleaned: the first was handed, the second skipped and counted.
C16_Witness ==
    /\ InUpload
    /\ skipped_dupes = 1
    /\ Len(handed) = 1
    /\ \E j, k \in Keyed :
          /\ j < k
          /\ data[j].Type = "CityLookup"
          /\ data[j].LocationName # data[k].LocationName
          /\ k \in Repeats

\* C17: a write failure does not abort upload: no exception of a batch
\* write leaves the run before its completion report.
C17_FailureDoesNotAbort == pc # "raised"

\* upload has ended: with its completion report or with an exception.
UploadEnded == pc \in {"uploaded", "raised"}

\* C18: under a store that keeps reporting the items of every batch as
\* unprocessed, upload terminates.
C18_BusyStoreTerminates == (store = "busy") => <>UploadEnded

\* -------------------------------------------------- claims: error handling
\* C19: when no cell representative has its GridID in the real-data cache,
\* interpolate_and_save returns with no output record emitted and the output
\* file not written (and the checkpoint left as it was).
C19_NoAnchorsNoOutput ==
    (pc = "finished" /\ ValidIDs = {}) =>
        /\ final_records = <<>>
        /\ ~written
        /\ file = DumpFile(real_data_cache)

\* Returned without valid anchors although cells are marked as anchors and
\* the cache holds forecasts (of other cells).
C19_Witness ==
    /\ pc = "finished"
    /\ ValidIDs = {}
    /\ AnchorIDs # {}
    /\ DOMAIN real_data_cache # {}
    /\ lookups # <<>>

\* C20: when the point source is absent the pipeline ends after
\* generate_unique_grids returned nothing: fetch_anchors and
\* interpolate_and_save are not entered, no request is issued, the
\* checkpoint is not read and stays as it was, and no output is written.
C20_MissingSourceStopsPipeline ==
    ~source_exists =>
        /\ pc \in {"main", "returned", "exit"}
        /\ grids = <<>> /\ lookups = <<>>
        /\ \A g \in DOMAIN requested : requested[g] = 0
        /\ loaded = {} /\ real_data_cache = EmptyMap
        /\ file = file0
        /\ final_records = <<>> /\ ~written

\* The pipeline has ended without its source, a checkpoint of an earlier
\* run lying there untouched.
C20_Witness ==
    /\ ~source_exists
    /\ pc = "exit"
    /\ file.exists
    /\ file = file0

\* ------------------------------------------------------------ claims: query
\* C21: for every point the indexing loop has processed, search_by_coords at
\* the point's raw (lat, lon) gives the GridID the point was indexed under
\* (that of its lookup record), and grid_map has a representative for it.
C21_QueryReachesIndexedCell ==
    source_exists =>
        \A j \in 1..city_idx :
            /\ SearchByCoords(points[j].lat, points[j].lng) = lookups[j].GridID
            /\ \E n \in 1..Len(grid_map) :
                  grid_map[n].GridID = SearchByCoords(points[j].lat, points[j].lng)

\* A point south of the equator (negative cell row) that is not the
\* representative of its cell: the query at its coordinates gives the cell
\* of the representative.
C21_Witness ==
    /\ Indexed
    /\ \E j \in 1..Len(points) : \E n \in 1..Len(grid_map) :
          /\ points[j].lat < 0
          /\ grid_map[n].GridID = SearchByCoords(points[j].lat, points[j].lng)
          /\ grid_map[n].GridID[3] < 0
          /\ grid_map[n].City # points[j].city_ascii

\* ------------------------------------------------- claims: fetch_anchors, 2
\* C22: a request is issued only when the fixed delay has elapsed since the
\* request before it in this run, whatever that request's outcome was.
C22_DelayBetweenRequests ==
    [][(\E g \in DOMAIN requested : g \in DOMAIN requested' /\ requested'[g] = requested[g] + 1)
          => slept]_vars

\* ------------------------------------------ claims: generate_unique_grids, 2
\* C23: at return every cell Pass 2 marked is at least as populated as
\* every cell left non-anchor, and Pass 2 marked exactly the smaller of the
\* number of cells Pass 1 left non-anchor and floor(unique_count * 5 / 100).
C23_Pass2TakesMostPopulated ==
    GenReturned =>
        /\ \A m, n \in 1..Len(grids) :
              (grids[m].GridID \in pop_ids /\ ~grids[n].IsAnchor)
                  => grids[m].Population >= grids[n].Population
        /\ \E target \in 0..Len(grids) :
              /\ target * 100 <= Len(grids) * ANCHOR_PERCENTAGE
              /\ (target + 1) * 100 > Len(grids) * ANCHOR_PERCENTAGE
              /\ pop_count = IF Len(grids) - spatial_count < target
                             THEN Len(grids) - spatial_count ELSE target

\* Pass 2 marked two cells; a cell left non-anchor is less populated than
\* both, another is as populated as one of them, and the most populated
\* cell of all was taken by Pass 1.
C23_Witness ==
    /\ GenReturned
    /\ pop_count = 2
    /\ \E m, n, k \in 1..Len(grids) :
          /\ grids[m].GridID \in pop_ids
          /\ ~grids[n].IsAnchor /\ grids[n].Population < grids[m].Population
          /\ ~grids[k].IsAnchor /\ grids[k].Population = grids[m].Population
    /\ \E a \in 1..Len(grids) :
          /\ grids[a].GridID \in spatial_ids
          /\ \A n \in 1..Len(grids) : grids[n].Population <= grids[a].Population

\* -------------------------------------------- claims: interpolate_and_save, 2
\* The weather records of satellite cells, by position.
SatelliteIdx == {k \in WeatherIdx : nearest[final_records[k].GridID] # final_records[k].GridID}

\* The record the nearest anchor of record r emitted for the timestep of r.
AnchorRecord(r) ==
    final_records[CHOOSE k \in WeatherIdx :
                      /\ final_records[k].GridID = nearest[r.GridID]
                      /\ final_records[k].Type = r.Type
                      /\ final_records[k].Timestamp = r.Timestamp]

\* The fields of a weather record that come from the forecast.
ForecastFields(r) == DOMAIN r \ {"GridID", "Type", "LocationName", "Country", "Lat", "Lon", "IsAnchor"}

\* C24: every record of a satellite cell carries the Humidity (hourly
\* records), ChanceOfRain and Precipitation the nearest valid anchor fetched
\* for that timestep, unchanged; against the record the anchor itself
\* emitted for the timestep no forecast field other than Temperature and
\* WindSpeed differs.
C24_SatelliteCopiesOtherFields ==
    written =>
        \A k \in SatelliteIdx :
            LET r == final_records[k]
                source_data == real_data_cache[nearest[r.GridID]]
                h_data == HourlyOf(source_data)
                d_data == DailyOf(source_data)
            IN  /\ IF r.Type = "Hourly"
                   THEN /\ r.Humidity = h_data.relative_humidity_2m[HourOf(r, h_data) + 1]
                        /\ r.ChanceOfRain = h_data.precipitation_probability[HourOf(r, h_data) + 1]
                        /\ r.Precipitation = h_data.precipitation[HourOf(r, h_data) + 1]
                   ELSE /\ r.ChanceOfRain = d_data.precipitation_probability_max[DayOf(r, d_data) + 1]
                        /\ r.Precipitation = d_data.precipitation_sum[DayOf(r, d_data) + 1]
                /\ ForecastFields(r) = ForecastFields(AnchorRecord(r))
                /\ \A f \in ForecastFields(r) \ {"Temperature", "WindSpeed"} :
                      r[f] = AnchorRecord(r)[f]

\* A satellite record whose Temperature and WindSpeed both differ from its
\* anchor's while its Humidity, not a round value, is the anchor's, and
\* another valid anchor fetched another Humidity for that hour.
C24_Witness ==
    /\ written
    /\ \E k \in SatelliteIdx :
          LET r == final_records[k] IN
          /\ r.Type = "Hourly"
          /\ r.Temperature # AnchorRecord(r).Temperature
          /\ r.WindSpeed # AnchorRecord(r).WindSpeed
          /\ r.Humidity = AnchorRecord(r).Humidity
          /\ r.Humidity % 10 # 0
          /\ \E g \in ValidIDs :
                HourlyOf(real_data_cache[g]).relative_humidity_2m[HourOf(r, HourlyOf(real_data_cache[g])) + 1]
                    # r.Humidity

\* ---------------------------------------------------------- claims: upload, 2
\* C25: a record is counted as a skipped duplicate only if its key was
\* handed to the writer without put_item raising: the key of a record
\* whose put_item raised is not held against a later record.
C25_SeenOnlyIfHanded ==
    [][skipped_dupes' = skipped_dupes + 1
          => PkSig(Rewritten(data[rec_idx + 1])[1]) \notin put_raised]_vars

\* ------------------------------------------------- claims: fetch_anchors, 2
\* C26: when the checkpoint file exists but json.load fails on it,
\* fetch_anchors starts with an empty cache and every anchor cell left to
\* fetch; a run that started with an empty cache requests every anchor
\* once, and the checkpoint file it leaves parses to exactly the payloads
\* of the anchors that answered 200 in this run.
C26_UnreadableCheckpointStartsFresh ==
    /\ [][(pc = "load" /\ pc' = "request" /\ file.exists /\ ~file.valid)
          => (/\ real_data_cache' = EmptyMap
              /\ loaded' = {}
              /\ grids_to_fetch' = AnchorGrids)]_vars
    /\ []((pc = "done" /\ loaded = {}) =>
            /\ \A g \in AnchorIDs : requested[g] = 1
            /\ file.exists
            /\ LoadedCache(file) = real_data_cache
            /\ real_data_cache = [g \in Ok200 |-> Forecast(g)])

C26_Witness ==
    /\ pc = "done"
    /\ ~resumed
    /\ file0 = TornFile
    /\ Ok200 # {}
    /\ AnchorIDs \ Ok200 # {}
====
